---- MODULE Spec2Model ----
(***************************************************************************)
(* The parallel scanning engine of wordfence-cli                           *)
(* (src/wordfence/scanning/scanner.py): the controller (Scanner.scan and   *)
(* ScanWorkerPool.await_results), the file locator process, the scan       *)
(* workers and the progress monitor, communicating through the bounded     *)
(* input, work and event queues and the shared status value.               *)
(*                                                                         *)
(* A queue is a FIFO sequence: an item is visible to the reader when put   *)
(* returns, and put blocks while the queue is full (every queue of the     *)
(* code has a maxsize).  use_log_events is False, the default that the     *)
(* call in src/wordfence/cli/scan/scan.py leaves in place, so no           *)
(* LOG_MESSAGE event is produced.  What a walk yields and how the scan of  *)
(* one file ends (result, OSError, any other exception) is chosen by the   *)
(* environment when the step is taken, and so is whether result_processor  *)
(* raises.                                                                 *)
(*                                                                         *)
(* The program is entered at main of src/wordfence/cli/scan/scan.py or at  *)
(* Scanner.scan.  SIGINT is handled by the handlers scan.py installs; the  *)
(* signal is delivered to the controller process.                          *)
(***************************************************************************)
EXTENDS Integers, Sequences, FiniteSets, TLC

\* ------------------------------------------------------------------ bounds
MaxWorkers == 2         \* Options.workers ranges over 1..MaxWorkers
MaxPaths == 2           \* number of entries of Options.paths
MaxSource == 1          \* number of entries read from Options.path_source
MaxFiles == 1           \* files the directory walks yield in one scan
MaxFileSize == 4        \* size in bytes of a scanned file
MaxChunkSize == 3       \* chunk_size of the chunk-reading specification
InputQueueSize == 1     \* capacity of FileLocatorProcess._input_queue
WorkQueueSize == 1      \* capacity of FileLocatorProcess.output_queue
EventQueueSize == 1     \* capacity of the event queue
ScanChunkSize == 2      \* Options.chunk_size of the scans of Spec
MaxNames == 1           \* basenames the file-name options can list
MaxPatterns == 1        \* patterns the pattern options can list

\* ------------------------------------------------------- values of the code
NoLimit == -1           \* scanned_content_limit = None
NoIndex == -1           \* ScanEvent.worker_index = None
NoValue == -1           \* no exit code: nothing returned, no SystemExit
FILE_LOCATOR_WORKER_INDEX == 0
InterruptExitCode == 130    \* sys.exit(130), os._exit(130)

LOCATING_FILES == "LOCATING_FILES"
PROCESSING_FILES == "PROCESSING_FILES"
COMPLETE == "COMPLETE"
FAILED == "FAILED"
Status == {LOCATING_FILES, PROCESSING_FILES, COMPLETE, FAILED}

ScanEventType == {"COMPLETED", "FILE_QUEUE_EMPTIED", "FILE_PROCESSED",
                  "EXCEPTION", "FATAL_EXCEPTION", "PROGRESS_UPDATE",
                  "LOG_MESSAGE"}

Min(a, b) == IF a <= b THEN a ELSE b

\* ScanEvent(type, data, worker_index); data is flattened into the fields
\* path, length, matches (is the matches map non-empty) and timeouts (the
\* size of the timeouts set). The event None is the record of type "None".
ScanEvent(type, worker_index, path, length, matches, timeouts) ==
    [type |-> type, worker_index |-> worker_index, path |-> path,
     length |-> length, matches |-> matches, timeouts |-> timeouts]
PlainEvent(type, worker_index) ==
    ScanEvent(type, worker_index, 0, 0, FALSE, 0)
NoneEvent == PlainEvent("None", NoIndex)

\* Items of the work queue: a path, None, or a ScanningException.
PathItem(p) == [kind |-> "path", path |-> p]
NoneItem == [kind |-> "None", path |-> 0]
ExceptionItem == [kind |-> "exception", path |-> 0]

\* ------------------------------------------------- chunked reading of a file
\* ScanWorker._get_next_chunk_size
GetNextChunkSizeNoMin(length, chunk_size, limit) ==
    IF limit = NoLimit THEN chunk_size
    ELSE IF length >= limit THEN 0
    ELSE chunk_size
GetNextChunkSize(length, chunk_size, limit) ==
    IF limit = NoLimit THEN chunk_size
    ELSE IF length >= limit THEN 0
    ELSE Min(limit - length, chunk_size)

\* file.read(chunk_size) of a regular file opened 'rb', at offset `offset`:
\* the bytes up to the end of the file, at most chunk_size of them.
FileRead(size, offset, chunk_size) == Min(chunk_size, size - offset)

\* The read loop of ScanWorker._process_file: the chunks handed to
\* context.process_chunk, in order. stop_after is the number of the chunk at
\* which process_chunk returns true (0: it never does); n chunks have been
\* processed and `length` bytes read so far.
RECURSIVE ReadLoop(_, _, _, _, _, _)
ReadLoop(size, chunk_size, limit, stop_after, length, n) ==
    LET request == GetNextChunkSize(length, chunk_size, limit)
        chunk == FileRead(size, length, request)
        this == [requested |-> request, read |-> chunk, first |-> (length = 0)]
    IN  IF request = 0 THEN << >>
        ELSE IF chunk = 0 THEN << >>
        ELSE IF n + 1 = stop_after THEN << this >>
        ELSE << this >> \o ReadLoop(size, chunk_size, limit, stop_after,
                                    length + chunk, n + 1)

RECURSIVE SumRead(_)
SumRead(chunks) ==
    IF chunks = << >> THEN 0 ELSE Head(chunks).read + SumRead(Tail(chunks))

\* The 'length' of the FILE_PROCESSED event of _process_file.
ProcessedLength(size, chunk_size, limit, stop_after) ==
    SumRead(ReadLoop(size, chunk_size, limit, stop_after, 0, 0))

\* ------------------------------------------------------------------- state
VARIABLES
    workers,        \* Options.workers
    has_progress,   \* progress_receiver is not None
    paths_todo,     \* entries of Options.paths not yet added
    source_todo,    \* entries of Options.path_source not yet read
    ctl_pc,         \* position of the controller in Scanner.scan
    error,          \* the exception Scanner.scan raised, or "none"
    path_count,     \* FileLocatorProcess._path_count
    input_queue,    \* FileLocatorProcess._input_queue
    work_queue,     \* FileLocatorProcess.output_queue
    event_queue,    \* the event queue
    status,         \* ScanWorkerPool._status
    loc_pc,         \* position of the file locator process in run
    located,        \* number of paths put on the work queue so far
    w_pc,           \* position of each scan worker
    w_ev,           \* the event a worker is about to put
    complete,       \* ScanWorker.complete of each worker
    mon_pc,         \* position of the progress monitor
    metrics,        \* ScanMetrics
    result_cb,      \* number of calls of result_processor
    finished_cb,    \* number of calls of scan_finished_handler
    taken,          \* history: per path, how often it was dequeued
    handled,        \* history: per path, the FILE_PROCESSED and EXCEPTION
                    \* events handled for it (two counts)
    seen,           \* history: totals over the FILE_PROCESSED events handled
    completed_seen, \* history: worker indexes of the COMPLETED events handled
    sentinels_put,  \* history: number of None put on the work queue
    walk_failed,    \* history: a directory walk raised ScanningException
    os_errors,      \* history: the paths whose open or read raised OSError
    add_path_calls, \* history: number of calls of add_path
    interrupts,     \* number of SIGINT the controller process has handled
    exit_state,     \* how the process is asked to end: the value main
                    \* returned, the exception it raised, sys.exit, os._exit
    rd,             \* the chunk-reading specification: input and result
    progress_cb,    \* history: calls of progress_receiver made by the last
                    \* step of start or of the event loop
    ff              \* the file-filter specification: configuration, path
                    \* and decision

vars == << workers, has_progress, paths_todo, source_todo, ctl_pc, error,
           path_count, input_queue, work_queue, event_queue, status, loc_pc,
           located, w_pc, w_ev, complete, mon_pc, metrics, result_cb,
           finished_cb, taken, handled, seen, completed_seen, sentinels_put,
           walk_failed, os_errors, add_path_calls, interrupts, exit_state,
           rd, progress_cb, ff >>

\* range(self.size) of ScanWorkerPool.start
WorkerIndexes == 0 .. (workers - 1)
Paths == 1 .. MaxFiles

\* ------------------------------------------------------------ ScanMetrics
InitialMetrics(worker_count) ==
    [counts   |-> [i \in 0 .. (worker_count - 1) |-> 0],
     bytes    |-> [i \in 0 .. (worker_count - 1) |-> 0],
     matches  |-> [i \in 0 .. (worker_count - 1) |-> 0],
     timeouts |-> [i \in 0 .. (worker_count - 1) |-> 0]]

\* ScanResult built from a FILE_PROCESSED event
ScanResult(event) ==
    [path |-> event.path, read_length |-> event.length,
     matches |-> event.matches, timeouts |-> event.timeouts]
HasMatches(result) == result.matches
GetTimeoutCount(result) == result.timeouts

RecordResultNoBytes(m, worker_index, result) ==
    [counts   |-> [m.counts EXCEPT ![worker_index] = @ + 1],
     bytes    |-> m.bytes,
     matches  |-> IF HasMatches(result)
                  THEN [m.matches EXCEPT ![worker_index] = @ + 1]
                  ELSE m.matches,
     timeouts |-> [m.timeouts EXCEPT
                      ![worker_index] = @ + GetTimeoutCount(result)]]

RecordResult(m, worker_index, result) ==
    [counts   |-> [m.counts EXCEPT ![worker_index] = @ + 1],
     bytes    |-> [m.bytes EXCEPT ![worker_index] = @ + result.read_length],
     matches  |-> IF HasMatches(result)
                  THEN [m.matches EXCEPT ![worker_index] = @ + 1]
                  ELSE m.matches,
     timeouts |-> [m.timeouts EXCEPT
                      ![worker_index] = @ + GetTimeoutCount(result)]]

RECURSIVE AggregateIntMetric(_)
AggregateIntMetric(metric) ==
    IF DOMAIN metric = {} THEN 0
    ELSE LET i == CHOOSE j \in DOMAIN metric : TRUE
         IN  metric[i] + AggregateIntMetric(
                             [j \in DOMAIN metric \ {i} |-> metric[j]])
GetTotalCount == AggregateIntMetric(metrics.counts)
GetTotalBytes == AggregateIntMetric(metrics.bytes)
GetTotalMatches == AggregateIntMetric(metrics.matches)
GetTotalTimeouts == AggregateIntMetric(metrics.timeouts)

\* ------------------------------------------------------------------- Init
\* neither has main ended nor has an exit been requested
NoResult == [kind |-> "none", code |-> NoValue]

NoRead == [size |-> 0, chunk_size |-> 1, limit |-> NoLimit, stop_after |-> 0,
           done |-> FALSE, chunks |-> << >>, length |-> 0]

\* ------------------------------------------------------------- file filter
\* A configuration option that holds a list: None, or its entries.
NoOption == [given |-> FALSE, entries |-> {}]
OptionValues(S) ==
    {NoOption} \cup { [given |-> TRUE, entries |-> e] : e \in SUBSET S }
Names == 1 .. MaxNames
Patterns == 1 .. MaxPatterns
Extensions == {"php", "html", "js", "other"}

\* for ... in <option>: the entries in the order of the list
RECURSIVE Entries(_)
Entries(S) ==
    IF S = {} THEN << >>
    ELSE LET m == CHOOSE x \in S : \A y \in S : x <= y
         IN << m >> \o Entries(S \ {m})

\* filter.add(test, allow) for each entry of an option
RECURSIVE AddAll(_, _, _, _)
AddAll(rules, kind, entries, allow) ==
    IF entries = << >> THEN rules
    ELSE AddAll(Append(rules, [kind |-> kind, arg |-> Head(entries),
                               allow |-> allow]),
                kind, Tail(entries), allow)

\* ScanCommand._initialize_file_filter: the rules in insertion order
InitializeFileFilter(config) ==
    LET has_include_overrides ==
            config.include_files.given \/ config.include_files_pattern.given
        r1 == AddAll(<< >>, "filename", Entries(config.include_files.entries),
                     TRUE)
        r2 == AddAll(r1, "pattern",
                     Entries(config.include_files_pattern.entries), TRUE)
        r3 == AddAll(r2, "filename", Entries(config.exclude_files.entries),
                     FALSE)
        r4 == AddAll(r3, "pattern",
                     Entries(config.exclude_files_pattern.entries), FALSE)
        r5 == IF has_include_overrides THEN r4
              ELSE r4 \o << [kind |-> "php", arg |-> 0, allow |-> TRUE],
                            [kind |-> "html", arg |-> 0, allow |-> TRUE],
                            [kind |-> "js", arg |-> 0, allow |-> TRUE] >>
    IN  IF ~has_include_overrides /\ config.images # 0
        THEN Append(r5, [kind |-> "pattern", arg |-> config.images,
                         allow |-> TRUE])
        ELSE r5

\* filtering.filter_filename, filter_pattern, filter_php, filter_html and
\* filter_js applied to a path, which is given by its basename (0: a name
\* no option lists), its extension and the patterns it matches
RuleMatches(rule, path) ==
    CASE rule.kind = "filename" -> path.name = rule.arg
      [] rule.kind = "pattern" -> rule.arg \in path.matches
      [] OTHER -> path.ext = rule.kind

\* FileFilter.filter: the outcome of the last rule that matches; when no
\* rule matches, false if there is an allow rule and true otherwise
Filter(rules, path) ==
    LET matching == { k \in 1 .. Len(rules) : RuleMatches(rules[k], path) }
    IN  IF matching # {}
        THEN rules[CHOOSE k \in matching : \A j \in matching : j <= k].allow
        ELSE ~ \E k \in 1 .. Len(rules) : rules[k].allow

FilterConfigs ==
    [include_files : OptionValues(Names),
     include_files_pattern : OptionValues(Patterns),
     exclude_files : OptionValues(Names),
     exclude_files_pattern : OptionValues(Patterns),
     images : 0 .. MaxPatterns]
FilterPaths ==
    [name : 0 .. MaxNames, ext : Extensions, matches : SUBSET Patterns]
NoFilter ==
    [config |-> [include_files |-> NoOption,
                 include_files_pattern |-> NoOption,
                 exclude_files |-> NoOption,
                 exclude_files_pattern |-> NoOption, images |-> 0],
     path |-> [name |-> 0, ext |-> "other", matches |-> {}],
     done |-> FALSE, accepted |-> FALSE]

\* The program is entered at main (ctl_pc = "main") or at Scanner.scan
\* (ctl_pc = "add_paths": the state after the constructors of Scanner.scan,
\* at file_locator_process.start()).
ScanInit ==
    /\ workers \in 1 .. MaxWorkers
    /\ has_progress \in BOOLEAN
    /\ paths_todo \in 0 .. MaxPaths
    /\ source_todo \in 0 .. MaxSource
    /\ ctl_pc \in {"main", "add_paths"}
    /\ error = "none"
    /\ path_count = 0
    /\ input_queue = << >>
    /\ work_queue = << >>
    /\ event_queue = << >>
    /\ status = LOCATING_FILES
    /\ loc_pc = IF ctl_pc = "main" THEN "idle" ELSE "get"
    /\ located = 0
    /\ w_pc = [i \in WorkerIndexes |-> "idle"]
    /\ w_ev = [i \in WorkerIndexes |-> NoneEvent]
    /\ complete = [i \in WorkerIndexes |-> FALSE]
    /\ mon_pc = "none"
    /\ metrics = InitialMetrics(workers)
    /\ result_cb = 0
    /\ finished_cb = 0
    /\ taken = [p \in Paths |-> 0]
    /\ handled = [p \in Paths |-> [processed |-> 0, exceptions |-> 0]]
    /\ seen = [count |-> 0, bytes |-> 0, matches |-> 0, timeouts |-> 0]
    /\ completed_seen = {}
    /\ sentinels_put = 0
    /\ walk_failed = FALSE
    /\ os_errors = {}
    /\ add_path_calls = 0
    /\ interrupts = 0
    /\ exit_state = NoResult
    /\ progress_cb = 0

Init == ScanInit /\ rd = NoRead /\ ff = NoFilter


\* ------------------------------------------------------------ queue helpers
HasRoom(q, size) == Len(q) < size

\* ScanWorkerPool.terminate: Process.terminate() of every worker and of the
\* monitor; a process that already ended stays as it is.
TerminateWorkers(pc) ==
    [i \in DOMAIN pc |->
        IF pc[i] \in {"exited", "dead"} THEN pc[i] ELSE "terminated"]
TerminateMonitor(pc) ==
    IF pc \in {"none", "exited"} THEN pc ELSE "terminated"

\* ScanWorkerPool.is_complete
IsCompleteAny == \E i \in WorkerIndexes : complete[i]
IsComplete == \A i \in WorkerIndexes : complete[i]

\* await_results, COMPLETED branch: the event is taken for the locator's
AttributedToLocator(event) == event.worker_index = FILE_LOCATOR_WORKER_INDEX

\* ScanProgressMonitor.is_scan_running
IsScanRunning(s) == s # COMPLETE /\ s # FAILED

\* the condition under which a read timeout completes the worker
TimeoutCompletesAlways(s) == TRUE
TimeoutCompletesWhileLocating(s) == s \in {LOCATING_FILES, PROCESSING_FILES}
TimeoutCompletes(s) == s = PROCESSING_FILES

\* ----------------------------------------------------- controller actions
\* main / ScanCommand.execute: the arguments of Options(...) are evaluated,
\* where _get_signatures raises LicenseRequiredException when no license is
\* configured; then Options(...) is called with the keywords threads and
\* max_file_size, which the dataclass Options does not have: TypeError.
ExecuteErrors == {"LicenseRequiredException", "TypeError"}
Execute ==
    /\ ctl_pc = "main"
    /\ ctl_pc' = "main_except"
    /\ error' \in ExecuteErrors
    /\ UNCHANGED << workers, has_progress, paths_todo, source_todo,
                    path_count, input_queue, work_queue, event_queue, status,
                    loc_pc, located, w_pc, w_ev, complete, mon_pc, metrics,
                    result_cb, finished_cb, taken, handled, seen,
                    completed_seen, sentinels_put, walk_failed, os_errors, rd,
                    add_path_calls, interrupts, exit_state,
                    progress_cb, ff >>

\* main: return 0 after command.execute(), return 1 in the handler of
\* LicenseRequiredException, raise exception in the handler of BaseException
MainResult(err) ==
    CASE err = "none" -> [kind |-> "return", code |-> 0]
      [] err = "LicenseRequiredException" -> [kind |-> "return", code |-> 1]
      [] OTHER -> [kind |-> "raise", code |-> NoValue]

Main ==
    /\ ctl_pc = "main_except"
    /\ ctl_pc' = "main_ended"
    /\ exit_state' = MainResult(error)
    /\ UNCHANGED << workers, has_progress, paths_todo, source_todo, error,
                    path_count, input_queue, work_queue, event_queue, status,
                    loc_pc, located, w_pc, w_ev, complete, mon_pc, metrics,
                    result_cb, finished_cb, taken, handled, seen,
                    completed_seen, sentinels_put, walk_failed, os_errors, rd,
                    add_path_calls, interrupts,
                    progress_cb, ff >>

\* Scanner.scan, loop over options.paths: file_locator_process.add_path(path)
AddPath ==
    /\ ctl_pc = "add_paths"
    /\ paths_todo > 0
    /\ HasRoom(input_queue, InputQueueSize)
    /\ paths_todo' = paths_todo - 1
    /\ path_count' = path_count + 1
    /\ add_path_calls' = add_path_calls + 1
    /\ input_queue' = Append(input_queue, "path")
    /\ UNCHANGED << workers, has_progress, source_todo, ctl_pc, error,
                    work_queue, event_queue, status, loc_pc, located, w_pc,
                    w_ev, complete, mon_pc, metrics, result_cb, finished_cb,
                    taken, handled, seen, completed_seen, sentinels_put,
                    walk_failed, os_errors, rd,
                    interrupts, exit_state,
                    progress_cb, ff >>

\* ScanWorkerPool._send_progress_update: the number of calls of the
\* progress receiver it makes
SendProgressUpdate(has_receiver) == IF has_receiver THEN 1 ELSE 0

\* ScanWorkerPool.__enter__ / start
PoolStart ==
    /\ ctl_pc = "add_paths"
    /\ paths_todo = 0
    /\ status' = LOCATING_FILES
    /\ mon_pc' = IF has_progress THEN "check" ELSE "none"
    /\ w_pc' = [i \in WorkerIndexes |-> "get"]
    /\ ctl_pc' = "in_pool"
    /\ progress_cb' = SendProgressUpdate(has_progress)
    /\ UNCHANGED << workers, has_progress, paths_todo, source_todo, error,
                    path_count, input_queue, work_queue, event_queue, loc_pc,
                    located, w_ev, complete, metrics, result_cb, finished_cb,
                    taken, handled, seen, completed_seen, sentinels_put,
                    walk_failed, os_errors, rd,
                    add_path_calls, interrupts, exit_state, ff >>

\* Scanner.scan, loop over options.path_source.read_entry()
AddSourcePath ==
    /\ ctl_pc = "in_pool"
    /\ source_todo > 0
    /\ HasRoom(input_queue, InputQueueSize)
    /\ source_todo' = source_todo - 1
    /\ path_count' = path_count + 1
    /\ add_path_calls' = add_path_calls + 1
    /\ input_queue' = Append(input_queue, "path")
    /\ UNCHANGED << workers, has_progress, paths_todo, ctl_pc, error,
                    work_queue, event_queue, status, loc_pc, located, w_pc,
                    w_ev, complete, mon_pc, metrics, result_cb, finished_cb,
                    taken, handled, seen, completed_seen, sentinels_put,
                    walk_failed, os_errors, rd,
                    interrupts, exit_state,
                    progress_cb, ff >>

\* finalize_paths: if self._path_count < 1
NoPathAddedBelowTwo(count) == count < 2
NoPathAdded(count) == count < 1

\* FileLocatorProcess.finalize_paths; when it raises, the pool's __exit__
\* terminates the workers and the monitor.
FinalizePaths ==
    /\ ctl_pc = "in_pool"
    /\ source_todo = 0
    /\ HasRoom(input_queue, InputQueueSize)
    /\ input_queue' = Append(input_queue, "None")
    /\ IF NoPathAdded(path_count)
       THEN /\ ctl_pc' = "raised"
            /\ error' = "ScanConfigurationException"
            /\ w_pc' = TerminateWorkers(w_pc)
            /\ mon_pc' = TerminateMonitor(mon_pc)
       ELSE /\ ctl_pc' = "await"
            /\ UNCHANGED << error, w_pc, mon_pc >>
    /\ UNCHANGED << workers, has_progress, paths_todo, source_todo,
                    path_count, work_queue, event_queue, status, loc_pc,
                    located, w_ev, complete, metrics, result_cb, finished_cb,
                    taken, handled, seen, completed_seen, sentinels_put,
                    walk_failed, os_errors, rd,
                    add_path_calls, interrupts, exit_state,
                    progress_cb, ff >>

\* ScanWorkerPool.await_results: one turn of the loop. The put of None of
\* the COMPLETED branch is PutNone, since it blocks on a full queue.
\* result_processor may raise (cb_raises): the error leaves await_results
\* and the pool's __exit__ runs terminate().
AwaitResults ==
    /\ ctl_pc = "await"
    /\ event_queue # << >>
    /\ \E cb_raises \in BOOLEAN :
       LET event == Head(event_queue) IN
        /\ cb_raises => event.type = "FILE_PROCESSED"
        /\ event_queue' = Tail(event_queue)
        /\ status' = CASE event.type = "None" -> COMPLETE
                       [] event.type = "FILE_QUEUE_EMPTIED" -> PROCESSING_FILES
                       [] event.type = "FATAL_EXCEPTION" -> FAILED
                       [] OTHER -> status
        /\ ctl_pc' = CASE event.type = "None" -> "stop"
                       [] event.type = "COMPLETED" ->
                            IF IsComplete THEN "put_none" ELSE "await"
                       [] event.type = "FATAL_EXCEPTION" -> "raised"
                       [] cb_raises -> "raised"
                       [] OTHER -> "await"
        /\ error' = CASE event.type = "FATAL_EXCEPTION" -> "ScanningException"
                      [] cb_raises -> "CallbackError"
                      [] OTHER -> error
        /\ w_pc' = IF event.type = "FATAL_EXCEPTION" \/ cb_raises
                   THEN TerminateWorkers(w_pc) ELSE w_pc
        /\ mon_pc' = IF event.type = "FATAL_EXCEPTION" \/ cb_raises
                     THEN TerminateMonitor(mon_pc) ELSE mon_pc
        /\ metrics' = IF event.type = "FILE_PROCESSED"
                      THEN RecordResult(metrics, event.worker_index,
                                        ScanResult(event))
                      ELSE metrics
        /\ result_cb' = IF event.type = "FILE_PROCESSED"
                        THEN result_cb + 1 ELSE result_cb
        /\ handled' = CASE event.type = "FILE_PROCESSED" ->
                             [handled EXCEPT ![event.path].processed = @ + 1]
                        [] event.type = "EXCEPTION" ->
                             [handled EXCEPT ![event.path].exceptions = @ + 1]
                        [] OTHER -> handled
        /\ seen' = IF event.type = "FILE_PROCESSED"
                   THEN [count |-> seen.count + 1,
                         bytes |-> seen.bytes + event.length,
                         matches |-> seen.matches
                                       + (IF event.matches THEN 1 ELSE 0),
                         timeouts |-> seen.timeouts + event.timeouts]
                   ELSE seen
        /\ completed_seen' = IF event.type = "COMPLETED"
                             THEN completed_seen \cup {event.worker_index}
                             ELSE completed_seen
        /\ progress_cb' = IF event.type = "PROGRESS_UPDATE"
                          THEN SendProgressUpdate(has_progress)
                          ELSE 0
    /\ UNCHANGED << workers, has_progress, paths_todo, source_todo,
                    path_count, input_queue, work_queue, loc_pc, located,
                    w_ev, complete, finished_cb, taken, sentinels_put,
                    walk_failed, os_errors, rd,
                    add_path_calls, interrupts, exit_state, ff >>

\* self._event_queue.put(None) of await_results
PutNone ==
    /\ ctl_pc = "put_none"
    /\ HasRoom(event_queue, EventQueueSize)
    /\ event_queue' = Append(event_queue, NoneEvent)
    /\ ctl_pc' = "await"
    /\ UNCHANGED << workers, has_progress, paths_todo, source_todo, error,
                    path_count, input_queue, work_queue, status, loc_pc,
                    located, w_pc, w_ev, complete, mon_pc, metrics, result_cb,
                    finished_cb, taken, handled, seen, completed_seen,
                    sentinels_put, walk_failed, os_errors, rd,
                    add_path_calls, interrupts, exit_state,
                    progress_cb, ff >>

\* ScanWorkerPool.__exit__ without exception: stop() joins every worker and
\* the monitor.
PoolStop ==
    /\ ctl_pc = "stop"
    /\ \A i \in WorkerIndexes : w_pc[i] \in {"exited", "dead", "terminated"}
    /\ mon_pc \in {"none", "exited", "terminated"}
    /\ ctl_pc' = "stopped"
    /\ UNCHANGED << workers, has_progress, paths_todo, source_todo, error,
                    path_count, input_queue, work_queue, event_queue, status,
                    loc_pc, located, w_pc, w_ev, complete, mon_pc, metrics,
                    result_cb, finished_cb, taken, handled, seen, completed_seen,
                    sentinels_put, walk_failed, os_errors, rd,
                    add_path_calls, interrupts, exit_state,
                    progress_cb, ff >>

\* the handler, were it called in a finally clause
ScanFinishedAlsoOnError ==
    /\ ctl_pc \in {"stopped", "raised"}
    /\ finished_cb' = finished_cb + 1
    /\ ctl_pc' = "done"
    /\ UNCHANGED << workers, has_progress, paths_todo, source_todo, error,
                    path_count, input_queue, work_queue, event_queue, status,
                    loc_pc, located, w_pc, w_ev, complete, mon_pc, metrics,
                    result_cb, taken, handled, seen, completed_seen, sentinels_put,
                    walk_failed, os_errors, rd,
                    add_path_calls, interrupts, exit_state,
                    progress_cb, ff >>

\* Scanner.scan after the pool: timer.stop(), scan_finished_handler
ScanFinished ==
    /\ ctl_pc = "stopped"
    /\ finished_cb' = finished_cb + 1
    /\ ctl_pc' = "done"
    /\ UNCHANGED << workers, has_progress, paths_todo, source_todo, error,
                    path_count, input_queue, work_queue, event_queue, status,
                    loc_pc, located, w_pc, w_ev, complete, mon_pc, metrics,
                    result_cb, taken, handled, seen, completed_seen, sentinels_put,
                    walk_failed, os_errors, rd,
                    add_path_calls, interrupts, exit_state,
                    progress_cb, ff >>

\* ------------------------------------------------------------ interrupts
\* the controller is inside the with statement of the pool: an exception
\* raised there makes __exit__ run terminate()
InPoolScope(pc) == pc \in {"in_pool", "await", "put_none"}

\* SIGINT during Scanner.scan, handle_interrupt: sys.exit(130) raises
\* SystemExit in the controller where it stands; handle_repeated_interrupt
\* becomes the handler.
Interrupt ==
    /\ interrupts = 0
    /\ ctl_pc \in {"add_paths", "in_pool", "await", "put_none", "stop",
                   "stopped"}
    /\ interrupts' = 1
    /\ ctl_pc' = "raised"
    /\ error' = "SystemExit"
    /\ exit_state' = [kind |-> "sys.exit", code |-> InterruptExitCode]
    /\ w_pc' = IF InPoolScope(ctl_pc) THEN TerminateWorkers(w_pc) ELSE w_pc
    /\ mon_pc' = IF InPoolScope(ctl_pc) THEN TerminateMonitor(mon_pc)
                 ELSE mon_pc
    /\ UNCHANGED << workers, has_progress, paths_todo, source_todo,
                    path_count, input_queue, work_queue, event_queue, status,
                    loc_pc, located, w_ev, complete, metrics, result_cb,
                    finished_cb, taken, handled, seen, completed_seen,
                    sentinels_put, walk_failed, os_errors, rd,
                    add_path_calls,
                    progress_cb, ff >>

\* a process of the scan has been started and has not ended
LocatorRunning == loc_pc \notin {"idle", "exited"}
WorkerRunning(i) == w_pc[i] \notin {"idle", "exited", "dead", "terminated"}
MonitorRunning == mon_pc \notin {"none", "exited", "terminated"}
ChildRunning ==
    \/ LocatorRunning
    \/ \E i \in WorkerIndexes : WorkerRunning(i)
    \/ MonitorRunning

\* a second SIGINT, handle_repeated_interrupt: os._exit(130) ends the
\* controller process at once; the other processes are not signalled. The
\* controller process is still there to receive it as long as one of its
\* child processes runs (a Process that is not a daemon is joined at exit).
RepeatedInterrupt ==
    /\ interrupts = 1
    /\ ChildRunning
    /\ interrupts' = 2
    /\ ctl_pc' = "killed"
    /\ exit_state' = [kind |-> "os._exit", code |-> InterruptExitCode]
    /\ UNCHANGED << workers, has_progress, paths_todo, source_todo, error,
                    path_count, input_queue, work_queue, event_queue, status,
                    loc_pc, located, w_pc, w_ev, complete, mon_pc, metrics,
                    result_cb, finished_cb, taken, handled, seen,
                    completed_seen, sentinels_put, walk_failed, os_errors, rd,
                    add_path_calls,
                    progress_cb, ff >>

\* ------------------------------------------------ file locator process
\* FileLocatorProcess.run: path := self._input_queue.get()
LocatorGet ==
    /\ loc_pc = "get"
    /\ input_queue # << >>
    /\ input_queue' = Tail(input_queue)
    /\ loc_pc' = IF Head(input_queue) = "None" THEN "put_none" ELSE "walk"
    /\ UNCHANGED << workers, has_progress, paths_todo, source_todo, ctl_pc,
                    error, path_count, work_queue, event_queue, status,
                    located, w_pc, w_ev, complete, mon_pc, metrics, result_cb,
                    finished_cb, taken, handled, seen, completed_seen,
                    sentinels_put, walk_failed, os_errors, rd,
                    add_path_calls, interrupts, exit_state,
                    progress_cb, ff >>

\* FileLocator.locate / search_directory: what the walk does next. It has
\* another path to put, it ends, or os.scandir fails with OSError, which
\* search_directory raises as ScanningException.
LocatorWalk ==
    /\ loc_pc = "walk"
    /\ \/ /\ located < MaxFiles
          /\ loc_pc' = "put_path"
          /\ UNCHANGED walk_failed
       \/ /\ loc_pc' = "get"
          /\ UNCHANGED walk_failed
       \/ /\ loc_pc' = "put_exception"
          /\ walk_failed' = TRUE
    /\ UNCHANGED << workers, has_progress, paths_todo, source_todo, ctl_pc,
                    error, path_count, input_queue, work_queue, event_queue,
                    status, located, w_pc, w_ev, complete, mon_pc, metrics,
                    result_cb, finished_cb, taken, handled, seen, completed_seen,
                    sentinels_put, rd, os_errors,
                    add_path_calls, interrupts, exit_state,
                    progress_cb, ff >>

\* FileLocator.locate: self.queue.put(path)
LocatorPutPath ==
    /\ loc_pc = "put_path"
    /\ HasRoom(work_queue, WorkQueueSize)
    /\ located' = located + 1
    /\ work_queue' = Append(work_queue, PathItem(located + 1))
    /\ loc_pc' = "walk"
    /\ UNCHANGED << workers, has_progress, paths_todo, source_todo, ctl_pc,
                    error, path_count, input_queue, event_queue, status,
                    w_pc, w_ev, complete, mon_pc, metrics, result_cb,
                    finished_cb, taken, handled, seen, completed_seen,
                    sentinels_put, walk_failed, os_errors, rd,
                    add_path_calls, interrupts, exit_state,
                    progress_cb, ff >>

\* FileLocatorProcess.run: self.output_queue.put(None), after which run
\* returns
LocatorPutNone ==
    /\ loc_pc = "put_none"
    /\ HasRoom(work_queue, WorkQueueSize)
    /\ work_queue' = Append(work_queue, NoneItem)
    /\ sentinels_put' = sentinels_put + 1
    /\ loc_pc' = "exited"
    /\ UNCHANGED << workers, has_progress, paths_todo, source_todo, ctl_pc,
                    error, path_count, input_queue, event_queue, status,
                    located, w_pc, w_ev, complete, mon_pc, metrics, result_cb,
                    finished_cb, taken, handled, seen, completed_seen,
                    walk_failed, os_errors, rd,
                    add_path_calls, interrupts, exit_state,
                    progress_cb, ff >>

\* FileLocatorProcess.run: self.output_queue.put(exception)
LocatorPutException ==
    /\ loc_pc = "put_exception"
    /\ HasRoom(work_queue, WorkQueueSize)
    /\ work_queue' = Append(work_queue, ExceptionItem)
    /\ loc_pc' = "exited"
    /\ UNCHANGED << workers, has_progress, paths_todo, source_todo, ctl_pc,
                    error, path_count, input_queue, event_queue, status,
                    located, w_pc, w_ev, complete, mon_pc, metrics, result_cb,
                    finished_cb, taken, handled, seen, completed_seen,
                    sentinels_put, walk_failed, os_errors, rd,
                    add_path_calls, interrupts, exit_state,
                    progress_cb, ff >>

\* ------------------------------------------------------------ scan worker
\* What _process_file meets in a file: its size, the chunk at which
\* process_chunk returns true (0: never), and context.matches / timeouts.
FileCases ==
    { [size |-> MaxFileSize, stop_after |-> 1, matches |-> TRUE,
       timeouts |-> 0],
      [size |-> MaxFileSize, stop_after |-> 0, matches |-> FALSE,
       timeouts |-> 2] }

\* ScanWorker._process_file without error: the FILE_PROCESSED event
ProcessFile(index, path, c) ==
    ScanEvent("FILE_PROCESSED", index, path,
              ProcessedLength(c.size, ScanChunkSize, NoLimit, c.stop_after),
              c.matches, c.timeouts)

\* ScanWorker._process_file, except OSError: the EXCEPTION event (the path
\* is kept as history; the event's data holds the exception only)
ProcessFileOSError(index, path) ==
    ScanEvent("EXCEPTION", index, path, 0, FALSE, 0)

\* where a worker goes on after _put_event
AfterPutStopOnError(type) ==
    CASE type = "FILE_QUEUE_EMPTIED" -> "complete"
      [] type \in {"COMPLETED", "EXCEPTION"} -> "exited"
      [] OTHER -> "get"
\* _complete, were it to leave self._working set
AfterPutKeepsWorking(type) ==
    CASE type = "FILE_QUEUE_EMPTIED" -> "complete"
      [] OTHER -> "get"
\* the loop, were it left after a FATAL_EXCEPTION
AfterPutStopOnFatal(type) ==
    CASE type = "FILE_QUEUE_EMPTIED" -> "complete"
      [] type \in {"COMPLETED", "FATAL_EXCEPTION"} -> "exited"
      [] OTHER -> "get"
AfterPut(type) ==
    CASE type = "FILE_QUEUE_EMPTIED" -> "complete"
      [] type = "COMPLETED" -> "exited"
      [] OTHER -> "get"

\* ScanWorker.work: item = self._work_queue.get(timeout=...) and the branch
\* taken on the item, up to the put of the event
WorkerGet(i) ==
    /\ w_pc[i] = "get"
    /\ work_queue # << >>
    /\ LET item == Head(work_queue) IN
        /\ work_queue' = Tail(work_queue)
        /\ CASE item.kind = "None" ->
                  /\ w_ev' = [w_ev EXCEPT
                                 ![i] = PlainEvent("FILE_QUEUE_EMPTIED", i)]
                  /\ w_pc' = [w_pc EXCEPT ![i] = "put"]
                  /\ UNCHANGED << taken, os_errors >>
             [] item.kind = "exception" ->
                  /\ w_ev' = [w_ev EXCEPT
                                 ![i] = PlainEvent("FATAL_EXCEPTION", i)]
                  /\ w_pc' = [w_pc EXCEPT ![i] = "put"]
                  /\ UNCHANGED << taken, os_errors >>
             [] OTHER ->
                  /\ taken' = [taken EXCEPT ![item.path] = @ + 1]
                  /\ \/ \E c \in FileCases :
                          /\ w_ev' = [w_ev EXCEPT
                                         ![i] = ProcessFile(i, item.path, c)]
                          /\ w_pc' = [w_pc EXCEPT ![i] = "put"]
                          /\ UNCHANGED os_errors
                     \/ /\ w_ev' = [w_ev EXCEPT
                                     ![i] = ProcessFileOSError(i, item.path)]
                        /\ w_pc' = [w_pc EXCEPT ![i] = "put"]
                        /\ os_errors' = os_errors \cup {item.path}
                     \/ /\ w_pc' = [w_pc EXCEPT ![i] = "dead"]
                        /\ UNCHANGED << w_ev, os_errors >>
    /\ UNCHANGED << workers, has_progress, paths_todo, source_todo, ctl_pc,
                    error, path_count, input_queue, event_queue, status,
                    loc_pc, located, complete, mon_pc, metrics, result_cb,
                    finished_cb, handled, seen, completed_seen, sentinels_put,
                    walk_failed, rd,
                    add_path_calls, interrupts, exit_state,
                    progress_cb, ff >>

\* ScanWorker.work, except queue.Empty: the read timed out. When the status
\* is PROCESSING_FILES the worker runs _complete up to its _put_event; any
\* other status sends it back to the read with nothing changed.
WorkerTimeout(i) ==
    /\ w_pc[i] = "get"
    /\ work_queue = << >>
    /\ TimeoutCompletes(status)
    /\ complete' = [complete EXCEPT ![i] = TRUE]
    /\ w_ev' = [w_ev EXCEPT ![i] = PlainEvent("COMPLETED", i)]
    /\ w_pc' = [w_pc EXCEPT ![i] = "put"]
    /\ UNCHANGED << workers, has_progress, paths_todo, source_todo, ctl_pc,
                    error, path_count, input_queue, work_queue, event_queue,
                    status, loc_pc, located, mon_pc, metrics, result_cb,
                    finished_cb, taken, handled, seen, completed_seen,
                    sentinels_put, walk_failed, os_errors, rd,
                    add_path_calls, interrupts, exit_state,
                    progress_cb, ff >>

\* _complete, were the worker to mark the scan complete itself
WorkerCompleteSetsStatus(i) ==
    /\ w_pc[i] = "complete"
    /\ complete' = [complete EXCEPT ![i] = TRUE]
    /\ w_ev' = [w_ev EXCEPT ![i] = PlainEvent("COMPLETED", i)]
    /\ w_pc' = [w_pc EXCEPT ![i] = "put"]
    /\ status' = COMPLETE
    /\ UNCHANGED << workers, has_progress, paths_todo, source_todo, ctl_pc,
                    error, path_count, input_queue, work_queue, event_queue,
                    loc_pc, located, mon_pc, metrics, result_cb,
                    finished_cb, taken, handled, seen, completed_seen,
                    sentinels_put, walk_failed, os_errors, rd,
                    add_path_calls, interrupts, exit_state,
                    progress_cb, ff >>

\* ScanWorker.work after the put of FILE_QUEUE_EMPTIED: _complete up to its
\* _put_event
WorkerComplete(i) ==
    /\ w_pc[i] = "complete"
    /\ complete' = [complete EXCEPT ![i] = TRUE]
    /\ w_ev' = [w_ev EXCEPT ![i] = PlainEvent("COMPLETED", i)]
    /\ w_pc' = [w_pc EXCEPT ![i] = "put"]
    /\ UNCHANGED << workers, has_progress, paths_todo, source_todo, ctl_pc,
                    error, path_count, input_queue, work_queue, event_queue,
                    status, loc_pc, located, mon_pc, metrics, result_cb,
                    finished_cb, taken, handled, seen, completed_seen,
                    sentinels_put, walk_failed, os_errors, rd,
                    add_path_calls, interrupts, exit_state,
                    progress_cb, ff >>

\* ScanWorker._put_event: self._event_queue.put(ScanEvent(...))
WorkerPutEvent(i) ==
    /\ w_pc[i] = "put"
    /\ HasRoom(event_queue, EventQueueSize)
    /\ event_queue' = Append(event_queue, w_ev[i])
    /\ w_pc' = [w_pc EXCEPT ![i] = AfterPut(w_ev[i].type)]
    /\ w_ev' = [w_ev EXCEPT ![i] = NoneEvent]
    /\ UNCHANGED << workers, has_progress, paths_todo, source_todo, ctl_pc,
                    error, path_count, input_queue, work_queue, status,
                    loc_pc, located, complete, mon_pc, metrics, result_cb,
                    finished_cb, taken, handled, seen, completed_seen,
                    sentinels_put, walk_failed, os_errors, rd,
                    add_path_calls, interrupts, exit_state,
                    progress_cb, ff >>

\* -------------------------------------------------------- progress monitor
\* ScanProgressMonitor.run: while self.is_scan_running()
MonitorCheck ==
    /\ mon_pc = "check"
    /\ mon_pc' = IF IsScanRunning(status) THEN "put" ELSE "exited"
    /\ UNCHANGED << workers, has_progress, paths_todo, source_todo, ctl_pc,
                    error, path_count, input_queue, work_queue, event_queue,
                    status, loc_pc, located, w_pc, w_ev, complete, metrics,
                    result_cb, finished_cb, taken, handled, seen, completed_seen,
                    sentinels_put, walk_failed, os_errors, rd,
                    add_path_calls, interrupts, exit_state,
                    progress_cb, ff >>

\* ScanProgressMonitor.run: sleep, then put PROGRESS_UPDATE
MonitorPut ==
    /\ mon_pc = "put"
    /\ HasRoom(event_queue, EventQueueSize)
    /\ event_queue' = Append(event_queue,
                             PlainEvent("PROGRESS_UPDATE", NoIndex))
    /\ mon_pc' = "check"
    /\ UNCHANGED << workers, has_progress, paths_todo, source_todo, ctl_pc,
                    error, path_count, input_queue, work_queue, status,
                    loc_pc, located, w_pc, w_ev, complete, metrics, result_cb,
                    finished_cb, taken, handled, seen, completed_seen,
                    sentinels_put, walk_failed, os_errors, rd,
                    add_path_calls, interrupts, exit_state,
                    progress_cb, ff >>

\* ---------------------------------------------------------- specifications
Controller ==
    \/ Execute \/ Main
    \/ AddPath \/ PoolStart \/ AddSourcePath \/ FinalizePaths
    \/ AwaitResults \/ PutNone \/ PoolStop \/ ScanFinished
Locator ==
    \/ LocatorGet \/ LocatorWalk \/ LocatorPutPath \/ LocatorPutNone
    \/ LocatorPutException
Worker(i) ==
    \/ WorkerGet(i) \/ WorkerTimeout(i) \/ WorkerComplete(i)
    \/ WorkerPutEvent(i)
Monitor == MonitorCheck \/ MonitorPut

Next ==
    \/ Controller
    \/ Locator
    \/ \E i \in WorkerIndexes : WorkerGet(i)
    \/ \E i \in WorkerIndexes : WorkerTimeout(i)
    \/ \E i \in WorkerIndexes : WorkerComplete(i)
    \/ \E i \in WorkerIndexes : WorkerPutEvent(i)
    \/ Monitor
    \/ Interrupt
    \/ RepeatedInterrupt

\* a step of one of the units of the program, as opposed to a signal
Units ==
    \/ Controller
    \/ Locator
    \/ \E i \in WorkerIndexes : Worker(i)
    \/ Monitor

Spec == Init /\ [][Next]_vars

\* Every unit is scheduled: a step of the controller, of the locator, of a
\* worker or of the monitor that stays possible is eventually taken. For a
\* worker this includes the read timeout of an empty work queue.
Fairness ==
    /\ WF_vars(Controller)
    /\ WF_vars(Locator)
    /\ WF_vars(Monitor)
    /\ \A i \in 0 .. (MaxWorkers - 1) :
          WF_vars(i \in WorkerIndexes /\ Worker(i))

FairSpec == Init /\ [][Next]_vars /\ Fairness


\* ------------------------------------------- chunk reading on its own
\* The read loop of _process_file applied to one file: Init draws the size
\* of the file, chunk_size, scanned_content_limit and the chunk at which the
\* match context short-circuits; ReadFile applies the loop.
Limits == {NoLimit} \cup (0 .. (MaxFileSize + 1))

ChunkInit ==
    /\ ScanInit
    /\ ctl_pc = "add_paths"
    /\ workers = 1 /\ has_progress = FALSE
    /\ paths_todo = 0 /\ source_todo = 0
    /\ rd \in [size : 0 .. MaxFileSize, chunk_size : 1 .. MaxChunkSize,
               limit : Limits, stop_after : 0 .. MaxFileSize,
               done : {FALSE}, chunks : {<< >>}, length : {0}]
    /\ ff = NoFilter

ReadFile ==
    /\ ~rd.done
    /\ rd' = [rd EXCEPT
                !.done = TRUE,
                !.chunks = ReadLoop(rd.size, rd.chunk_size, rd.limit,
                                    rd.stop_after, 0, 0),
                !.length = ProcessedLength(rd.size, rd.chunk_size, rd.limit,
                                           rd.stop_after)]
    /\ UNCHANGED << workers, has_progress, paths_todo, source_todo, ctl_pc,
                    error, path_count, input_queue, work_queue, event_queue,
                    status, loc_pc, located, w_pc, w_ev, complete, mon_pc,
                    metrics, result_cb, finished_cb, taken, handled, seen,
                    completed_seen, sentinels_put, walk_failed, os_errors,
                    add_path_calls, interrupts, exit_state,
                    progress_cb, ff >>

ChunkSpec == ChunkInit /\ [][ReadFile]_vars

\* The file filter on its own: a configuration and a path, to which the
\* filter built from the configuration is applied.
FilterInit ==
    /\ ScanInit
    /\ ctl_pc = "add_paths"
    /\ workers = 1 /\ has_progress = FALSE
    /\ paths_todo = 0 /\ source_todo = 0
    /\ rd = NoRead
    /\ ff \in [config : FilterConfigs, path : FilterPaths,
                done : {FALSE}, accepted : {FALSE}]

\* file_filter.filter(path) with the filter of _initialize_file_filter
ApplyFilter ==
    /\ ~ff.done
    /\ ff' = [ff EXCEPT
                !.done = TRUE,
                !.accepted = Filter(InitializeFileFilter(ff.config), ff.path)]
    /\ UNCHANGED << workers, has_progress, paths_todo, source_todo, ctl_pc,
                    error, path_count, input_queue, work_queue, event_queue,
                    status, loc_pc, located, w_pc, w_ev, complete, mon_pc,
                    metrics, result_cb, finished_cb, taken, handled, seen,
                    completed_seen, sentinels_put, walk_failed, os_errors,
                    add_path_calls, interrupts, exit_state, rd,
                    progress_cb >>

FilterSpec == FilterInit /\ [][ApplyFilter]_vars


\* ------------------------------------------------------------- properties
\* no worker has died of an unexpected error; nor has a walk failed
NoWorkerFailure == \A i \in WorkerIndexes : w_pc[i] # "dead"
NoFatal == ~walk_failed /\ NoWorkerFailure
\* no interrupt and no error of a callback has ended the scan
NoOutsideError == error \in {"none", "ScanningException"}
\* await_results has returned normally
AwaitReturned == ctl_pc \in {"stop", "stopped", "done"}
\* the step is a turn of the event loop that handles an event of this type
Handles(type) ==
    /\ ctl_pc = "await"
    /\ event_queue # << >>
    /\ Head(event_queue).type = type
    /\ event_queue' = Tail(event_queue)

\* C1: in a scan with no fatal error, every path the locator put on the work
\* queue has been dequeued exactly once and, when await_results has returned,
\* the controller has handled exactly one event for it, FILE_PROCESSED or
\* EXCEPTION; at no time has a path been dequeued twice or got two events.
C1_OneEventPerPath ==
    /\ \A p \in Paths :
          /\ taken[p] <= 1
          /\ handled[p].processed + handled[p].exceptions <= 1
    /\ (NoFatal /\ AwaitReturned) =>
          \A p \in 1 .. located :
              /\ taken[p] = 1
              /\ handled[p].processed + handled[p].exceptions = 1

C1_Witness ==
    /\ ctl_pc = "done"
    /\ workers >= 2
    /\ located >= 1
    /\ handled[1].processed = 1

\* C2: once the locator process has ended, it has put exactly one sentinel
\* per scan worker on the work queue, also when a walk failed.
C2_SentinelPerWorker == loc_pc = "exited" => sentinels_put = workers

\* C3: in a scan with no fatal error the scan never comes to a halt before
\* await_results has returned: as long as it has not, some unit can take a
\* step (in particular the controller's put of None does not stay blocked).
C3_NoHaltBeforeComplete ==
    (NoFatal /\ error = "none" /\ ctl_pc # "main") =>
        (AwaitReturned \/ ENABLED Units)

\* C4: when await_results has read None (status COMPLETE), it has handled a
\* COMPLETED event of every one of the workers.
C4_CompletedBeforeNone == status = COMPLETE => completed_seen = WorkerIndexes

\* C5: every change of status is LOCATING_FILES -> PROCESSING_FILES,
\* PROCESSING_FILES -> COMPLETE, or to FAILED from one of these two; a
\* FILE_QUEUE_EMPTIED handled in status PROCESSING_FILES leaves it unchanged.
StatusTransitions ==
    { << LOCATING_FILES, PROCESSING_FILES >>, << PROCESSING_FILES, COMPLETE >>,
      << LOCATING_FILES, FAILED >>, << PROCESSING_FILES, FAILED >> }
C5_StatusMachine ==
    [][ /\ status' # status => << status, status' >> \in StatusTransitions
        /\ (Handles("FILE_QUEUE_EMPTIED") /\ status = PROCESSING_FILES)
              => status' = PROCESSING_FILES ]_vars

C5_Witness == status = COMPLETE /\ ctl_pc = "done" /\ workers >= 2

\* C6: after a failed directory walk (and no other failure) the scan does
\* not end with status COMPLETE and does not come to a halt before the
\* controller has set status FAILED and raised the error.
C6_WalkFailureAborts ==
    (walk_failed /\ NoWorkerFailure /\ NoOutsideError) =>
        /\ status # COMPLETE
        /\ \/ (status = FAILED /\ error = "ScanningException")
           \/ ENABLED Units

\* C7: after an unexpected failure inside a worker (and no failed walk) the
\* scan does not come to a halt before the controller has set status FAILED.
C7_WorkerFailureAborts ==
    (~NoWorkerFailure /\ ~walk_failed /\ NoOutsideError) =>
        (status = FAILED \/ ENABLED Units)

\* C8: an OS error on one file makes the worker put exactly one EXCEPTION
\* event and no FILE_PROCESSED event for the path; after putting the event
\* the worker is back at the read of the work queue; handling the event
\* leaves status, metrics and the number of result callbacks unchanged and
\* stays in the event loop; when await_results has returned, exactly that
\* one event has been handled for the path.
C8_FileErrorNotFatal ==
    /\ [](\A p \in Paths :
             /\ handled[p].exceptions > 0 =>
                   /\ p \in os_errors
                   /\ handled[p].exceptions = 1
                   /\ handled[p].processed = 0
             /\ (p \in os_errors /\ AwaitReturned) =>
                   handled[p].exceptions = 1)
    /\ [][ /\ \A i \in WorkerIndexes :
                /\ os_errors' # os_errors =>
                      (w_pc'[i] # w_pc[i] =>
                          /\ w_pc'[i] = "put"
                          /\ w_ev'[i].type = "EXCEPTION"
                          /\ os_errors' = os_errors \cup {w_ev'[i].path})
                /\ (/\ w_pc[i] = "put"
                    /\ w_ev[i].type = "EXCEPTION"
                    /\ w_pc'[i] \notin {"put", "terminated"})
                   => /\ w_pc'[i] = "get"
                      /\ event_queue' = Append(event_queue, w_ev[i])
           /\ Handles("EXCEPTION") =>
                /\ status' = status
                /\ metrics' = metrics
                /\ result_cb' = result_cb
                /\ ctl_pc' = "await" ]_vars

C8_Witness ==
    /\ status = COMPLETE
    /\ ctl_pc = "done"
    /\ 1 \in os_errors
    /\ handled[1].exceptions = 1
    /\ result_cb = 0

ReadBound(size, limit) == IF limit = NoLimit THEN size ELSE Min(size, limit)
C10_ChunkedRead ==
    rd.done =>
        /\ \A k \in 1 .. Len(rd.chunks) :
              /\ rd.chunks[k].requested <= rd.chunk_size
              /\ rd.chunks[k].read <= rd.chunks[k].requested
              /\ rd.chunks[k].read >= 1
              /\ rd.chunks[k].first <=> (k = 1)
              /\ k < Len(rd.chunks) => rd.chunks[k].read = rd.chunk_size
        /\ rd.length <= ReadBound(rd.size, rd.limit)
        /\ rd.stop_after = 0 => rd.length = ReadBound(rd.size, rd.limit)

C10_Witness ==
    /\ rd.done
    /\ rd.stop_after = 0
    /\ rd.limit # NoLimit
    /\ rd.limit < rd.size
    /\ Len(rd.chunks) >= 2
    /\ rd.chunks[Len(rd.chunks)].read < rd.chunk_size
    /\ rd.length = rd.limit

\* C11: when Scanner.scan has raised the configuration error, no scan worker
\* and no progress monitor has been started, and the event loop has handled
\* no event.
C11_ConfigErrorBeforeStart ==
    error = "ScanConfigurationException" =>
        /\ \A i \in WorkerIndexes : w_pc[i] = "idle"
        /\ mon_pc = "none"
        /\ completed_seen = {}
        /\ result_cb = 0

\* C12: once Scanner.scan has raised, no unit is left running: when the
\* units have come to rest, every scan worker, the progress monitor and the
\* file locator have ended (none is blocked in a put or a get).
C12_NoUnitLeftRunning ==
    (ctl_pc = "raised" /\ ~ENABLED Units) => ~ChildRunning

\* C13: after await_results has returned normally the scan does not come to
\* a halt inside stop(): as long as the controller is joining, some unit can
\* take a step (no worker and no monitor stays blocked in a put on the full
\* event queue, so the join returns).
C13_StopReturns == ctl_pc = "stop" => ENABLED Units

\* C14: every event a scan worker is about to put carries a worker index in
\* 1..N, and the controller does not take it for an event of the locator.
C14_WorkerIndexFromOne ==
    \A i \in WorkerIndexes :
        w_pc[i] = "put" =>
            /\ w_ev[i].worker_index \in 1 .. workers
            /\ ~AttributedToLocator(w_ev[i])

\* C15: no step of the file locator, of the progress monitor or of a scan
\* worker changes status; every change of status is made by a turn of the
\* controller's event loop.
C15_StatusSingleWriter ==
    [][ /\ (Locator \/ Monitor \/ \E i \in WorkerIndexes : Worker(i))
              => status' = status
        /\ status' # status => AwaitResults ]_vars

C15_Witness ==
    /\ status = PROCESSING_FILES
    /\ has_progress
    /\ mon_pc = "put"
    /\ \E i \in WorkerIndexes : w_pc[i] = "put" /\ w_ev[i].type = "COMPLETED"

\* C16: after a first interrupt the scan is left with exit code 130 and
\* every unit is terminated: when the units have come to rest none of them
\* is still running; a second interrupt ends the process at once, again
\* with exit code 130.
C16_InterruptStopsAllUnits ==
    /\ interrupts >= 1 => exit_state.code = InterruptExitCode
    /\ (interrupts = 1 /\ ~ENABLED Units) => ~ChildRunning
    /\ interrupts = 2 => (exit_state.kind = "os._exit" /\ ctl_pc = "killed")

\* C17: when main has ended, it has returned 0 after a completed scan and 1
\* after a license, setup or fatal scan error; after an interrupt the exit
\* code is 130.
C17_ExitStatus ==
    ctl_pc = "main_ended" =>
        /\ error = "none" => exit_state = [kind |-> "return", code |-> 0]
        /\ error \notin {"none", "SystemExit"} =>
              exit_state = [kind |-> "return", code |-> 1]
        /\ error = "SystemExit" => exit_state.code = InterruptExitCode

\* C18: scan_finished_handler is called at most once, exactly once when the
\* scan has ended normally (status COMPLETE) and never when it has ended
\* with an error; when it is called the pool has stopped (no worker and no
\* monitor runs), and after it no event is handled: no result callback and
\* no progress callback follows.
C18_FinishedOnce ==
    /\ [](/\ finished_cb <= 1
          /\ ctl_pc = "done" => (finished_cb = 1 /\ status = COMPLETE)
          /\ error # "none" => finished_cb = 0
          /\ finished_cb = 1 =>
                /\ ctl_pc = "done"
                /\ \A i \in WorkerIndexes : ~WorkerRunning(i)
                /\ ~MonitorRunning)
    /\ [][ finished_cb >= 1 =>
              /\ result_cb' = result_cb
              /\ finished_cb' = finished_cb
              /\ ~AwaitResults ]_vars

C18_Witness ==
    /\ ctl_pc = "done"
    /\ finished_cb = 1
    /\ has_progress
    /\ result_cb >= 1

\* C19: a call of finalize_paths puts the sentinel None on the input queue;
\* it raises ScanConfigurationException if and only if add_path has never
\* been called, and otherwise returns normally (the controller goes on to
\* await_results).
C19_FinalizeRaisesIffNoPath ==
    [][ FinalizePaths =>
          /\ input_queue' = Append(input_queue, "None")
          /\ (error' = "ScanConfigurationException") <=> (add_path_calls = 0)
          /\ add_path_calls > 0 => (ctl_pc' = "await" /\ error' = "none")
          /\ add_path_calls = 0 => ctl_pc' = "raised" ]_vars

C19_Witness ==
    /\ ctl_pc = "await"
    /\ add_path_calls = 2
    /\ input_queue = << "None" >>

\* C20: a worker whose read of the work queue times out (it leaves the read
\* although the queue is empty) does so only in status PROCESSING_FILES; it
\* then sets its complete flag, puts COMPLETED and exits after the put. In
\* any other status the timeout changes nothing: the worker stays at the
\* read and has no event to put.
TimedOut(i) ==
    /\ w_pc[i] = "get"
    /\ w_pc'[i] \notin {"get", "terminated"}
    /\ work_queue' = work_queue
C20_TimeoutCompletesIffProcessing ==
    [][ \A i \in WorkerIndexes :
          /\ TimedOut(i) =>
                /\ status = PROCESSING_FILES
                /\ complete'[i]
                /\ w_pc'[i] = "put"
                /\ w_ev'[i] = PlainEvent("COMPLETED", i)
          /\ (w_pc[i] = "put" /\ w_ev[i].type = "COMPLETED"
                 /\ w_pc'[i] \notin {"put", "terminated"})
                => (w_pc'[i] = "exited"
                      /\ event_queue' = Append(event_queue, w_ev[i]))
          /\ (w_pc[i] = "get" /\ work_queue = << >>
                 /\ status # PROCESSING_FILES)
                => (w_pc'[i] \in {"get", "terminated"}
                      /\ w_ev'[i] = w_ev[i] /\ complete'[i] = complete[i]) ]_vars

\* two workers and one sentinel: one of them completed by a timeout
C20_Witness ==
    /\ workers >= 2
    /\ sentinels_put = 1
    /\ \A i \in WorkerIndexes : complete[i] /\ w_pc[i] = "exited"
    /\ completed_seen = WorkerIndexes
    /\ ctl_pc = "done"

\* C21: when a worker completes through the read timeout no path is
\* stranded: the locator has ended, the work queue is empty and every path
\* the locator has put on it has been dequeued by a worker.
C21_NoStrandedPath ==
    [][ \A i \in WorkerIndexes :
          TimedOut(i) =>
              /\ loc_pc = "exited"
              /\ work_queue = << >>
              /\ \A p \in 1 .. located : taken[p] = 1 ]_vars

\* two workers, one path and one sentinel: the worker that did not get the
\* sentinel completed through the timeout
C21_Witness ==
    /\ workers >= 2
    /\ located = 1
    /\ sentinels_put = 1
    /\ \A i \in WorkerIndexes : complete[i]
    /\ status = PROCESSING_FILES

\* C22: the event queue is first in, first out and a worker has one event
\* at a time, which it puts before it produces the next: its events reach
\* the queue in the order it produced them. A worker that has put COMPLETED
\* has exited and puts nothing afterwards (so it puts COMPLETED at most
\* once), and after the put of FILE_QUEUE_EMPTIED its next event is
\* COMPLETED.
PutBy(i) ==
    /\ Len(event_queue') = Len(event_queue) + 1
    /\ event_queue'[Len(event_queue')].worker_index = i
    /\ event_queue'[Len(event_queue')].type
          \notin {"None", "PROGRESS_UPDATE"}
PoisonInWorkQueue ==
    Cardinality({ k \in 1 .. Len(work_queue) :
                    work_queue[k].kind = "exception" })
FatalPending ==
    Cardinality({ i \in WorkerIndexes :
                    w_pc[i] = "put" /\ w_ev[i].type = "FATAL_EXCEPTION" })
FatalInEventQueue ==
    Cardinality({ k \in 1 .. Len(event_queue) :
                    event_queue[k].type = "FATAL_EXCEPTION" })
C23_PoisonOneWorkerStaysInLoop ==
    [][ /\ PoisonInWorkQueue + FatalPending + FatalInEventQueue <= 1
        /\ PoisonInWorkQueue + FatalPending + FatalInEventQueue > 0
              => walk_failed
        /\ \A i \in WorkerIndexes :
              /\ ( /\ work_queue # << >>
                   /\ Head(work_queue).kind = "exception"
                   /\ work_queue' = Tail(work_queue)
                   /\ w_pc[i] = "get"
                   /\ w_pc'[i] # "get" ) =>
                     /\ w_pc'[i] = "put"
                     /\ w_ev'[i] = PlainEvent("FATAL_EXCEPTION", i)
                     /\ \A j \in WorkerIndexes \ {i} :
                           w_pc'[j] = w_pc[j] /\ w_ev'[j] = w_ev[j]
              /\ ( /\ w_pc[i] = "put"
                   /\ w_ev[i].type = "FATAL_EXCEPTION"
                   /\ w_pc'[i] \notin {"put", "terminated"} ) =>
                     /\ w_pc'[i] = "get"
                     /\ event_queue' = Append(event_queue, w_ev[i])
      ]_vars

\* the worker that put the FATAL_EXCEPTION reads the work queue again
C23_Witness ==
    /\ walk_failed
    /\ event_queue # << >>
    /\ Head(event_queue).type = "FATAL_EXCEPTION"
    /\ w_pc[Head(event_queue).worker_index] = "get"
    /\ work_queue = << >>

\* C24: the scan does not come to a halt inside add_path: as long as the
\* controller has a path to hand to the locator (in the loop over
\* options.paths or in the loop over path_source), some unit can take a
\* step, so the put of add_path returns.
InAddPath ==
    \/ ctl_pc = "add_paths" /\ paths_todo > 0
    \/ ctl_pc = "in_pool" /\ source_todo > 0
C24_AddPathReturns == InAddPath => ENABLED Units

\* C25: there is a progress monitor only when a progress receiver was
\* given; once status is COMPLETE or FAILED the monitor puts at most the one
\* PROGRESS_UPDATE it had already decided to put, then finds the scan over
\* and leaves its loop, and it is not left blocked in that put when the scan
\* has come to a halt; a turn of the event loop that handles a
\* PROGRESS_UPDATE calls the progress receiver once and leaves status and
\* metrics unchanged.
C25_MonitorStopsAndUpdates ==
    [][ /\ mon_pc # "none" => has_progress
        /\ (mon_pc = "check" /\ ~IsScanRunning(status)) =>
              mon_pc' \in {"check", "exited", "terminated"}
        /\ mon_pc = "exited" => mon_pc' = "exited"
        /\ (~IsScanRunning(status) /\ ~ENABLED Units) => ~MonitorRunning
        /\ Handles("PROGRESS_UPDATE") =>
              /\ progress_cb' = 1
              /\ status' = status
              /\ metrics' = metrics
      ]_vars

\* C26: a path that matches a configured exclude rule (its basename is in
\* exclude_files or it matches a pattern of exclude_files_pattern) is
\* rejected by the filter of _initialize_file_filter, whatever include
\* rules or built-in rules it also matches.
MatchesExclude(config, path) ==
    \/ path.name \in config.exclude_files.entries
    \/ path.matches \cap config.exclude_files_pattern.entries # {}
C26_ExcludedPathRejected ==
    (ff.done /\ MatchesExclude(ff.config, ff.path)) => ~ff.accepted

====
